---- MODULE Spec2Model ----
(***************************************************************************)
(* Bounded IR crawler of streamlit_app.py (SmartIRCrawler) and the         *)
(* pattern collector of streamlit_app_clean.py (IRDataCollector); the      *)
(* scoring functions, the site exploration of search_existing_sources,     *)
(* the search-result filters and research_company of                       *)
(* StreamlitCompanyResearcher; the session handling of both main scripts.  *)
(* The variable app selects which of these independent programs runs.      *)
(*                                                                         *)
(* A text (page body, anchor text, href) is represented by the set of the  *)
(* vocabulary terms it contains as substrings; a URL by a short name.      *)
(* The recursion of discover_ir_links is an explicit stack of frames.      *)
(* Japanese terms of the source are written in romanised form:              *)
(*   kessan_tanshin = 決算短信, yuho = 有価証券報告書,                       *)
(*   kessan_setsumeikai = 決算説明会, gyoseki_highlight = 業績ハイライト,    *)
(*   chuki_keikaku = 中期経営計画, kabunushi_sokai = 株主総会,               *)
(*   tekiji_kaiji = 適時開示, news_release = ニュースリリース,               *)
(*   kessan = 決算, gyoseki = 業績, zaimu = 財務, uriage = 売上,             *)
(*   rieki = 利益, kyujin = 求人, saiyo = 採用.                              *)
(***************************************************************************)
EXTENDS Integers, Sequences, FiniteSets, TLC

VARIABLES app, site, ir_url, max_depth, responses, now,
          pc, pidx, stack, all_content, result, fetchLog,
          run, firstResult,
          cpc, cidx, collected_data, cresult, clog,
          calc, explorer, research, session

vars == <<app, site, ir_url, max_depth, responses, now,
          pc, pidx, stack, all_content, result, fetchLog,
          run, firstResult,
          cpc, cidx, collected_data, cresult, clog,
          calc, explorer, research, session>>

crawlerVars == <<pc, pidx, stack, all_content, result, fetchLog, run, firstResult,
                 responses, now>>
collectorVars == <<cpc, cidx, collected_data, cresult, clog>>
configVars == <<app, site, ir_url, max_depth>>

----------------------------------------------------------------------------
(* Bounds and program constants *)

\* number of consecutive crawl runs of one crawler object that are observed
MaxRuns == 2

\* an elapsed-time budget for one run, counted in request durations
ElapsedBudget == 5

\* SmartIRCrawler.__init__: max_depth=4
DefaultMaxDepth == 4
\* discover_ir_links: "if depth < 2"
LinkDepthLimit == 2
\* discover_ir_links: soup.find_all('a', href=True)[:20]
LinkScanCap == 20
\* discover_ir_links: "if len(discovered) >= 5: break"
DiscoveredCutoff == 5
\* crawl_with_intelligence: "len(all_content) >= 3"
PatternSkipThreshold == 3
\* crawl_with_intelligence: sorted_content[:5]
TopK == 5

----------------------------------------------------------------------------
(* Generic helpers *)

RECURSIVE SumOver(_, _)
SumOver(S, f) ==
    IF S = {} THEN 0
    ELSE LET x == CHOOSE y \in S : TRUE IN f[x] + SumOver(S \ {x}, f)

Take(s, n) == SubSeq(s, 1, IF Len(s) < n THEN Len(s) ELSE n)

Range(s) == {s[i] : i \in 1..Len(s)}

Repeat(x, n) == [i \in 1..n |-> x]

----------------------------------------------------------------------------
(* The company site: URLs, page bodies, anchors *)

\* the five seed URLs built from company_domain (crawl_with_intelligence)
DefaultIrUrl == "/ir/"
CustomIrUrl  == "/ir/library/"

SeedUrls == {"/ir/", "/investor/", "/company/ir/", "ir./", "/ir/library/"}
PageUrls == {"/ir/kessan/", "/ir/tanshin.pdf", "/ir/yuho.pdf", "/ir/setsumei/",
             "/ir/plan/", "/ir/news/", "/recruit/hiring.html", "/about/",
             "https://edinet.example/ir/"}
Urls == SeedUrls \cup PageUrls

SiteNames == {"wide", "cycle", "chain", "job", "diamond", "long", "badhref", "offsite"}

\* is_valid_domain (lines 42-48): company_domain in urlparse(url).netloc;
\* every other URL of the model is a path on a host of the company domain
is_valid_domain(url) == url # "https://edinet.example/ir/"

\* terms of the href attribute that the link filter looks for (href.lower())
HrefTerms(u) ==
    CASE u = "/investor/"           -> {"investor"}
      [] u = "/about/"              -> {}
      [] u = "/recruit/hiring.html" -> {"ir"}
      [] OTHER                      -> {"ir"}

\* an anchor: resolved target, terms of its lower-cased text, and whether
\* urljoin can resolve the href at all (urljoin raises ValueError on "//[")
Anchor(u, text) == [href |-> u, text |-> text, resolvable |-> TRUE]
BadAnchor       == [href |-> "/about/", text |-> {}, resolvable |-> FALSE]

\* soup.find_all('a', href=True) of the page at u, in document order
Links(s, u) ==
    CASE s = "wide" /\ u = "/ir/" ->
            << Anchor("/about/", {}), Anchor("/ir/kessan/", {"kessan"}),
               Anchor("/ir/setsumei/", {"kessan"}), Anchor("/ir/news/", {}) >>
      [] s = "wide" /\ u = "/ir/kessan/" ->
            << Anchor("/ir/", {"ir"}), Anchor("/ir/plan/", {}) >>
      [] s = "wide" /\ u = "/ir/setsumei/" ->
            << Anchor("/ir/tanshin.pdf", {"kessan"}), Anchor("/ir/yuho.pdf", {}),
               Anchor("/ir/news/", {}), Anchor("/ir/plan/", {}) >>
      [] s = "cycle" /\ u = "/ir/" ->
            << Anchor("/ir/", {"ir"}), Anchor("/ir/kessan/", {"kessan"}) >>
      [] s = "cycle" /\ u = "/ir/kessan/" ->
            << Anchor("/ir/", {"ir"}), Anchor("/ir/kessan/", {"kessan"}) >>
      [] s = "chain" /\ u = "/ir/" -> << Anchor("/ir/kessan/", {"kessan"}) >>
      [] s = "chain" /\ u = "/ir/kessan/" -> << Anchor("/ir/setsumei/", {"gyoseki"}) >>
      [] s = "chain" /\ u = "/ir/setsumei/" -> << Anchor("/ir/plan/", {"ir"}) >>
      [] s = "chain" /\ u = "/ir/plan/" -> << Anchor("/ir/news/", {"ir"}) >>
      [] s = "job" /\ u = "/ir/" ->
            << Anchor("/recruit/hiring.html", {"kyujin"}), Anchor("/ir/kessan/", {"kessan"}) >>
      [] s = "diamond" /\ u = "/ir/" ->
            << Anchor("/ir/kessan/", {"kessan"}), Anchor("/ir/setsumei/", {"gyoseki"}) >>
      [] s = "diamond" /\ u = "/ir/kessan/" -> << Anchor("/ir/plan/", {}) >>
      [] s = "diamond" /\ u = "/ir/setsumei/" -> << Anchor("/ir/plan/", {}) >>
      [] s = "long" /\ u = "/ir/" ->
            Repeat(Anchor("/about/", {}), LinkScanCap) \o << Anchor("/ir/kessan/", {"kessan"}) >>
      [] s = "offsite" /\ u = "/ir/" ->
            << Anchor("https://edinet.example/ir/", {"kessan"}) >>
      [] s = "badhref" /\ u = "/ir/" ->
            << Anchor("/ir/kessan/", {"kessan"}), BadAnchor, Anchor("/ir/news/", {}) >>
      [] u = "/investor/" /\ s \in {"wide", "job"} -> << Anchor("/ir/news/", {}) >>
      [] OTHER -> << >>

\* priority and earnings terms contained in response.text of the page at u
PageText(u) ==
    CASE u = "/ir/"                 -> {"IR"}
      [] u = "/ir/library/"         -> {"IR", "tekiji_kaiji"}
      [] u = "/ir/kessan/"          -> {"kessan_tanshin", "kessan", "uriage"}
      [] u = "/ir/tanshin.pdf"      -> {"kessan_tanshin", "kessan"}
      [] u = "/ir/yuho.pdf"         -> {"yuho"}
      [] u = "/ir/setsumei/"        -> {"kessan_setsumeikai", "kessan", "gyoseki"}
      [] u = "/ir/plan/"            -> {"chuki_keikaku"}
      [] u = "/ir/news/"            -> {"news_release"}
      [] u = "/recruit/hiring.html" -> {"kessan_tanshin", "yuho", "kessan_setsumeikai",
                                        "kessan", "gyoseki", "zaimu", "uriage", "rieki"}
      [] OTHER                      -> {}

\* priority terms occurring in the URL string itself (case-sensitive)
UrlText(u) == IF u = "/IR/report.pdf" THEN {"IR"} ELSE {}

IsPdf(u) == u \in {"/ir/tanshin.pdf", "/ir/yuho.pdf", "/IR/report.pdf"}

\* first match of each date pattern found in the body, in pattern order;
\* 0 stands for a match that datetime() rejects (e.g. month 13)
DateMatches(u) ==
    CASE u = "/ir/kessan/"     -> << 20240510 >>
      [] u = "/ir/tanshin.pdf" -> << 0, 20240331 >>
      [] u = "/ir/news/"       -> << 0 >>
      [] OTHER                 -> << >>

PageTitle(u) == u

----------------------------------------------------------------------------
(* SmartIRCrawler pure functions *)

RECURSIVE FirstValidDate(_, _)
FirstValidDate(matches, clock) ==
    IF matches = << >> THEN clock
    ELSE IF matches[1] # 0 THEN matches[1]
    ELSE FirstValidDate(Tail(matches), clock)

extract_date_always_now(matches, clock) == clock

extract_date_from_content(matches, clock) == FirstValidDate(matches, clock)

priority_keywords ==
    [k \in {"kessan_tanshin", "yuho", "kessan_setsumeikai", "gyoseki_highlight", "chuki_keikaku",
            "kabunushi_sokai", "tekiji_kaiji", "news_release", "IR"} |->
        CASE k = "kessan_tanshin" -> 10
          [] k = "yuho" -> 9
          [] k = "kessan_setsumeikai" -> 8
          [] k = "gyoseki_highlight" -> 7
          [] k = "chuki_keikaku" -> 6
          [] k = "kabunushi_sokai" -> 5
          [] k = "tekiji_kaiji" -> 4
          [] k = "news_release" -> 3
          [] k = "IR" -> 2]

earnings_keywords == {"kessan", "gyoseki", "zaimu", "uriage", "rieki"}

score_content_importance(content, url) ==
    SumOver({k \in DOMAIN priority_keywords : k \in content \/ k \in UrlText(url)},
            priority_keywords)
    + (IF IsPdf(url) THEN 3 ELSE 0)
    + 2 * Cardinality(earnings_keywords \cap content)

ir_keywords == {"kessan", "gyoseki", "ir", "investor"}

LinkMatches(link) ==
    \E k \in ir_keywords : k \in link.text \/ k \in HrefTerms(link.href)

\* the dict appended to discovered after a successful fetch (lines 126-138)
PageItem(u, clock) ==
    [url        |-> u,
     content    |-> PageText(u),
     date       |-> extract_date_from_content(DateMatches(u), clock),
     importance |-> score_content_importance(PageText(u), u),
     title      |-> PageTitle(u)]

ir_patterns == << ir_url, "/ir/", "/investor/", "/company/ir/", "ir./" >>

KeepAllItems(items, seen) == items

LastWithUrl(items, u) ==
    items[CHOOSE i \in 1..Len(items) :
              /\ items[i].url = u
              /\ \A j \in (i + 1)..Len(items) : items[j].url # u]

RECURSIVE DedupeKeepLast(_, _)
DedupeKeepLast(items, seen) ==
    IF items = << >> THEN << >>
    ELSE IF items[1].url \in seen THEN DedupeKeepLast(Tail(items), seen)
    ELSE << LastWithUrl(items, items[1].url) >>
         \o DedupeKeepLast(Tail(items), seen \cup {items[1].url})

\* unique_content: first item of each URL, in first-occurrence order
RECURSIVE DedupeByUrl(_, _)
DedupeByUrl(items, seen) ==
    IF items = << >> THEN << >>
    ELSE IF items[1].url \in seen THEN DedupeByUrl(Tail(items), seen)
    ELSE << items[1] >> \o DedupeByUrl(Tail(items), seen \cup {items[1].url})

\* sorted(..., key=importance, reverse=True): stable, equal keys keep order
RECURSIVE InsertDesc(_, _)
InsertDesc(sorted, x) ==
    IF sorted = << >> THEN << x >>
    ELSE IF sorted[1].importance >= x.importance
         THEN << sorted[1] >> \o InsertDesc(Tail(sorted), x)
         ELSE << x >> \o sorted

RECURSIVE SortByImportanceDesc(_)
SortByImportanceDesc(items) ==
    IF items = << >> THEN << >>
    ELSE InsertDesc(SortByImportanceDesc(SubSeq(items, 1, Len(items) - 1)),
                    items[Len(items)])

FinalResult(items) ==
    IF items = << >> THEN << >>
    ELSE Take(SortByImportanceDesc(DedupeByUrl(items, {})), TopK)

----------------------------------------------------------------------------
(* discover_ir_links: one frame per active call *)

Frame(u, d) ==
    [url |-> u, depth |-> d, stage |-> "enter", idx |-> 1,
     discovered |-> << >>, broke |-> FALSE]

Top == stack[Len(stack)]

ScanLimit(f) ==
    IF Len(Links(site, f.url)) < LinkScanCap THEN Len(Links(site, f.url)) ELSE LinkScanCap

\* the for loop of lines 145-158 still has an anchor to look at
LoopActive(f) ==
    /\ f.depth < LinkDepthLimit
    /\ ~f.broke
    /\ f.idx <= ScanLimit(f)

CurrentLink(f) == Links(site, f.url)[f.idx]

\* line 112: "if depth > self.max_depth: return []"
DepthAllowedOffByOne(depth) == ~(depth > max_depth + 1)

DepthAllowed(depth) == ~(depth > max_depth)

\* values returned by the two handlers of lines 162-167
NetworkErrorResult(f) == << >>

ParseErrorStub(f) ==
    << [url |-> f.url, content |-> {}, date |-> now, importance |-> 0, title |-> f.url] >>

ParseErrorResult(f) == << >>

\* line 157: the cut-off test made after a followed link has returned
CutoffReached(discovered) == Len(discovered) >= DiscoveredCutoff

AfterPatternNoBreak(content) ==
    /\ all_content' = all_content \o content
    /\ pidx' = pidx + 1
    /\ pc' = IF pidx = Len(ir_patterns) THEN "finalize" ELSE "patterns"

\* lines 191-196: what crawl_with_intelligence does with a pattern's content
AfterPattern(content) ==
    IF content # << >>
    THEN /\ all_content' = all_content \o content
         /\ pc' = "finalize"
         /\ pidx' = pidx
    ELSE /\ all_content' = all_content
         /\ pidx' = pidx + 1
         /\ pc' = IF pidx = Len(ir_patterns) THEN "finalize" ELSE "patterns"

\* the top frame returns val to its caller
ReturnValue(val) ==
    LET rest == SubSeq(stack, 1, Len(stack) - 1) IN
    IF rest = << >>
    THEN /\ stack' = << >>
         /\ AfterPattern(val)
    ELSE LET p == rest[Len(rest)]
             d == p.discovered \o val
         IN /\ stack' = [rest EXCEPT ![Len(rest)] =
                            [p EXCEPT !.discovered = d,
                                      !.idx = p.idx + 1,
                                      !.broke = CutoffReached(d)]]
            /\ UNCHANGED <<pc, pidx, all_content>>

LogFetch(f, ok) == Append(fetchLog, [url |-> f.url, depth |-> f.depth, ok |-> ok])

----------------------------------------------------------------------------
(* SmartIRCrawler.crawl_with_intelligence *)

\* lines 185-190: next pattern of the for loop
CrawlTryPattern ==
    /\ app = "crawler"
    /\ pc = "patterns"
    /\ pidx <= Len(ir_patterns)
    /\ IF ir_patterns[pidx] = "" \/ Len(all_content) >= PatternSkipThreshold
       THEN /\ pidx' = pidx + 1
            /\ pc' = IF pidx = Len(ir_patterns) THEN "finalize" ELSE "patterns"
            /\ UNCHANGED stack
       ELSE /\ stack' = << Frame(ir_patterns[pidx], 0) >>
            /\ pc' = "discover"
            /\ UNCHANGED pidx
    /\ UNCHANGED <<all_content, result, fetchLog, run, firstResult, responses, now>>
    /\ UNCHANGED <<configVars, collectorVars, calc, explorer, research, session>>

\* lines 112-113
DepthExceeded ==
    /\ pc = "discover"
    /\ Top.stage = "enter"
    /\ ~DepthAllowed(Top.depth)
    /\ ReturnValue(<< >>)
    /\ UNCHANGED <<result, fetchLog, run, firstResult, responses, now>>
    /\ UNCHANGED <<configVars, collectorVars, calc, explorer, research, session>>

\* lines 122-138: the request succeeds and the page is recorded
FetchOk ==
    /\ pc = "discover"
    /\ Top.stage = "enter"
    /\ DepthAllowed(Top.depth)
    /\ responses[Top.url] \in {"unset", "ok"}
    /\ responses' = [responses EXCEPT ![Top.url] = "ok"]
    /\ now' = now + 1
    /\ fetchLog' = LogFetch(Top, TRUE)
    /\ stack' = [stack EXCEPT ![Len(stack)] =
                    [Top EXCEPT !.stage = "links",
                                !.discovered = << PageItem(Top.url, now') >>]]
    /\ UNCHANGED <<pc, pidx, all_content, result, run, firstResult>>
    /\ UNCHANGED <<configVars, collectorVars, calc, explorer, research, session>>

\* lines 122-123, 162-164: requests raises (connection error, timeout, non-200)
FetchNetworkError ==
    /\ pc = "discover"
    /\ Top.stage = "enter"
    /\ DepthAllowed(Top.depth)
    /\ responses[Top.url] \in {"unset", "neterr"}
    /\ responses' = [responses EXCEPT ![Top.url] = "neterr"]
    /\ now' = now + 1
    /\ fetchLog' = LogFetch(Top, FALSE)
    /\ ReturnValue(NetworkErrorResult(Top))
    /\ UNCHANGED <<result, run, firstResult>>
    /\ UNCHANGED <<configVars, collectorVars, calc, explorer, research, session>>

\* lines 124-138, 165-167: the body arrives but parsing it raises
FetchParseError ==
    /\ pc = "discover"
    /\ Top.stage = "enter"
    /\ DepthAllowed(Top.depth)
    /\ responses[Top.url] \in {"unset", "parseerr"}
    /\ responses' = [responses EXCEPT ![Top.url] = "parseerr"]
    /\ now' = now + 1
    /\ fetchLog' = LogFetch(Top, FALSE)
    /\ ReturnValue(ParseErrorResult(Top))
    /\ UNCHANGED <<result, run, firstResult>>
    /\ UNCHANGED <<configVars, collectorVars, calc, explorer, research, session>>

\* line 152 raising ValueError, caught at line 165: the whole frame is dropped
LinkResolveError ==
    /\ pc = "discover"
    /\ Top.stage = "links"
    /\ LoopActive(Top)
    /\ ~CurrentLink(Top).resolvable
    /\ ReturnValue(ParseErrorResult(Top))
    /\ UNCHANGED <<result, fetchLog, run, firstResult, responses, now>>
    /\ UNCHANGED <<configVars, collectorVars, calc, explorer, research, session>>

SkipLinkStuck ==
    /\ pc = "discover"
    /\ Top.stage = "links"
    /\ LoopActive(Top)
    /\ CurrentLink(Top).resolvable
    /\ ~LinkMatches(CurrentLink(Top))
    /\ UNCHANGED vars

\* line 155 false: the anchor is not an IR link
SkipLink ==
    /\ pc = "discover"
    /\ Top.stage = "links"
    /\ LoopActive(Top)
    /\ CurrentLink(Top).resolvable
    /\ ~LinkMatches(CurrentLink(Top))
    /\ stack' = [stack EXCEPT ![Len(stack)] = [Top EXCEPT !.idx = Top.idx + 1]]
    /\ UNCHANGED <<pc, pidx, all_content, result, fetchLog, run, firstResult,
                   responses, now>>
    /\ UNCHANGED <<configVars, collectorVars, calc, explorer, research, session>>

\* lines 155-156: recursive call on a matching anchor
FollowLink ==
    /\ pc = "discover"
    /\ Top.stage = "links"
    /\ LoopActive(Top)
    /\ CurrentLink(Top).resolvable
    /\ LinkMatches(CurrentLink(Top))
    /\ stack' = Append(stack, Frame(CurrentLink(Top).href, Top.depth + 1))
    /\ UNCHANGED <<pc, pidx, all_content, result, fetchLog, run, firstResult,
                   responses, now>>
    /\ UNCHANGED <<configVars, collectorVars, calc, explorer, research, session>>

\* line 160
ReturnDiscovered ==
    /\ pc = "discover"
    /\ Top.stage = "links"
    /\ ~LoopActive(Top)
    /\ ReturnValue(Top.discovered)
    /\ UNCHANGED <<result, fetchLog, run, firstResult, responses, now>>
    /\ UNCHANGED <<configVars, collectorVars, calc, explorer, research, session>>

\* lines 198-214
Finalize ==
    /\ app = "crawler"
    /\ pc = "finalize"
    /\ result' = FinalResult(all_content)
    /\ pc' = "done"
    /\ UNCHANGED <<pidx, stack, all_content, fetchLog, run, firstResult, responses, now>>
    /\ UNCHANGED <<configVars, collectorVars, calc, explorer, research, session>>

\* the same crawl is run again against the same mocked responses
NextRun ==
    /\ app = "crawler"
    /\ pc = "done"
    /\ run < MaxRuns
    /\ run' = run + 1
    /\ firstResult' = IF run = 1 THEN result ELSE firstResult
    /\ pc' = "patterns"
    /\ pidx' = 1
    /\ stack' = << >>
    /\ all_content' = << >>
    /\ result' = << >>
    /\ fetchLog' = << >>
    /\ UNCHANGED <<responses, now>>
    /\ UNCHANGED <<configVars, collectorVars, calc, explorer, research, session>>

----------------------------------------------------------------------------
(* IRDataCollector.collect_basic_ir_info (streamlit_app_clean.py) *)

collector_patterns == << "/ir/", "/investor/", "ir./" >>

\* first 2000 characters of the body and the page title (lines 61-67)
CollectedItem(u) == [url |-> u, content |-> PageText(u), title |-> PageTitle(u)]

\* lines 59-70: the pattern answers 200; the item is kept and the loop is left
CollectionAfterOk(u) ==
    /\ collected_data' = Append(collected_data, CollectedItem(u))
    /\ cpc' = "return"
    /\ UNCHANGED cidx

CollectOk ==
    /\ app = "collector"
    /\ cpc = "patterns"
    /\ cidx <= Len(collector_patterns)
    /\ clog' = Append(clog, [url |-> collector_patterns[cidx], status |-> "200"])
    /\ CollectionAfterOk(collector_patterns[cidx])
    /\ UNCHANGED cresult
    /\ UNCHANGED <<configVars, crawlerVars, calc, explorer, research, session>>

\* line 59 false: any other status code, nothing is kept
CollectNon200 ==
    /\ app = "collector"
    /\ cpc = "patterns"
    /\ cidx <= Len(collector_patterns)
    /\ clog' = Append(clog, [url |-> collector_patterns[cidx], status |-> "non200"])
    /\ cidx' = cidx + 1
    /\ UNCHANGED <<cpc, collected_data, cresult>>
    /\ UNCHANGED <<configVars, crawlerVars, calc, explorer, research, session>>

\* lines 72-73: requests raises, continue with the next pattern
CollectRequestException ==
    /\ app = "collector"
    /\ cpc = "patterns"
    /\ cidx <= Len(collector_patterns)
    /\ clog' = Append(clog, [url |-> collector_patterns[cidx], status |-> "neterr"])
    /\ cidx' = cidx + 1
    /\ UNCHANGED <<cpc, collected_data, cresult>>
    /\ UNCHANGED <<configVars, crawlerVars, calc, explorer, research, session>>

\* lines 60-67 raising something that is not a RequestException: only the
\* outer handler of lines 77-79 catches it, and the function returns []
CollectOtherException ==
    /\ app = "collector"
    /\ cpc = "patterns"
    /\ cidx <= Len(collector_patterns)
    /\ clog' = Append(clog, [url |-> collector_patterns[cidx], status |-> "parseerr"])
    /\ cresult' = << >>
    /\ cpc' = "done"
    /\ UNCHANGED <<cidx, collected_data>>
    /\ UNCHANGED <<configVars, crawlerVars, calc, explorer, research, session>>

\* line 75
CollectReturn ==
    /\ app = "collector"
    /\ \/ cpc = "return"
       \/ cpc = "patterns" /\ cidx > Len(collector_patterns)
    /\ cresult' = collected_data
    /\ cpc' = "done"
    /\ UNCHANGED <<cidx, collected_data, clog>>
    /\ UNCHANGED <<configVars, crawlerVars, calc, explorer, research, session>>

----------------------------------------------------------------------------
(* Scoring functions applied to drawn inputs *)

\* largest number of vocabulary terms in a drawn text
MaxTextTerms == 2

\* a text that contains the terms of S contains as well the terms that occur
\* inside them
Closure(S) ==
    S \cup (IF S \cap {"kessan_tanshin", "kessan_setsumeikai"} # {} THEN {"kessan"} ELSE {})
      \cup (IF "gyoseki_highlight" \in S THEN {"gyoseki"} ELSE {})

SmallSubsets(S) == {T \in SUBSET S : Cardinality(T) <= MaxTextTerms}

ScoreVocabulary == DOMAIN priority_keywords \cup earnings_keywords

\* score_content_importance on a text and on the same text with arg.term added
ApplyScoreContentImportance ==
    /\ app = "pure"
    /\ calc.fn = "score_content_importance"
    /\ ~calc.done
    /\ calc' = [fn |-> calc.fn, arg |-> calc.arg, done |-> TRUE,
                ret |-> [before |-> score_content_importance(calc.arg.content, calc.arg.url),
                         after  |-> score_content_importance(
                                        Closure(calc.arg.content \cup {calc.arg.term}),
                                        calc.arg.url)]]
    /\ UNCHANGED <<configVars, crawlerVars, collectorVars, explorer, research, session>>

(* extract_relevant_content.  A block (the text of one tag) is described by
   the vocabulary terms its text contains, case-sensitively, the lowercased
   terms that are whole whitespace-separated tokens of it, whether it holds
   a digit together with a unit mark, and its length in characters.  Scores
   are kept in half points, since the source adds 1.5 per important term. *)

important_terms ==
    {"uriage", "rieki", "gyoseki", "kessan", "senryaku", "keikaku", "jigyo", "vision",
     "tsuyomi", "tokucho", "kyogo", "shijo", "gijutsu", "DX", "AI", "sustainability",
     "saiyo", "jinzai", "hatarakikata", "seido", "fukurikosei", "mission"}

\* str.lower() on the vocabulary
Lower(t) ==
    CASE t = "DX" -> "dx"
      [] t = "AI" -> "ai"
      [] OTHER    -> t

LowerAll(S) == {Lower(t) : t \in S}

\* len(w) of a vocabulary word in its original script
WordLen(w) ==
    CASE w = "revenue" -> 7
      [] w = "technology" -> 10
      [] OTHER -> 2

\* question_words: the words of the lowercased question longer than 2
question_words(question) == {Lower(w) : w \in {v \in question : WordLen(v) > 2}}

\* the relevance_score of one block in half points; important terms score nothing
relevance_score_ignoring_terms(block, keywords, question) ==
    SumOver({k \in keywords : Lower(k) \in LowerAll(block.contains)},
            [k \in keywords |-> IF Lower(k) \in block.tokens THEN 6 ELSE 4])
    + 2 * Cardinality(question_words(question) \cap LowerAll(block.contains))
    + (IF block.numeric THEN 4 ELSE 0)

\* the relevance_score of one block (lines 1166-1197), in half points
relevance_score(block, keywords, question) ==
    SumOver({k \in keywords : Lower(k) \in LowerAll(block.contains)},
            [k \in keywords |-> IF Lower(k) \in block.tokens THEN 6 ELSE 4])
    + 2 * Cardinality(question_words(question) \cap LowerAll(block.contains))
    + 3 * Cardinality(important_terms \cap block.contains)
    + (IF block.numeric THEN 4 ELSE 0)

\* blocks outside the length band are skipped before any scoring
BlockScored(block) == block.len >= 10 /\ block.len <= 800

\* relevant_texts before the sort: the scored blocks of positive score, in
\* document order
RECURSIVE relevant_texts(_, _, _)
relevant_texts(blocks, keywords, question) ==
    IF blocks = << >> THEN << >>
    ELSE LET block == Head(blocks)
             rest  == relevant_texts(Tail(blocks), keywords, question)
             score == relevance_score(block, keywords, question)
         IN IF BlockScored(block) /\ score > 0
            THEN << [text |-> block.text, score |-> score] >> \o rest
            ELSE rest

\* the text of a block with one more term: as a token of its own when glueTo
\* is "none", otherwise written next to the token glueTo, which then is no
\* longer a whole token of the text
BlockWithTerm(block, term, glueTo) ==
    [text     |-> Append(block.text, term),
     contains |-> block.contains \cup {term},
     tokens   |-> IF glueTo = "none" THEN block.tokens \cup {Lower(term)}
                  ELSE block.tokens \ {glueTo},
     numeric  |-> block.numeric,
     len      |-> block.len + WordLen(term) + (IF glueTo = "none" THEN 1 ELSE 0)]

RECURSIVE InsertByScoreUnstable(_, _)
InsertByScoreUnstable(sorted, x) ==
    IF sorted = << >> THEN << x >>
    ELSE IF sorted[1].score > x.score
         THEN << sorted[1] >> \o InsertByScoreUnstable(Tail(sorted), x)
         ELSE << x >> \o sorted

\* list.sort(key=score, reverse=True): stable, equal keys keep their order
RECURSIVE InsertByScore(_, _)
InsertByScore(sorted, x) ==
    IF sorted = << >> THEN << x >>
    ELSE IF sorted[1].score >= x.score
         THEN << sorted[1] >> \o InsertByScore(Tail(sorted), x)
         ELSE << x >> \o sorted

RECURSIVE SortByScoreDesc(_)
SortByScoreDesc(items) ==
    IF items = << >> THEN << >>
    ELSE InsertByScore(SortByScoreDesc(SubSeq(items, 1, Len(items) - 1)),
                       items[Len(items)])

\* top_texts: the texts of the six best blocks; '\n\n'.join keeps their order
extract_relevant_content(blocks, keywords, question) ==
    LET top == Take(SortByScoreDesc(relevant_texts(blocks, keywords, question)), 6)
    IN [i \in 1..Len(top) |-> top[i].text]

\* inputs of extract_relevant_content
BlockVocabulary == {"uriage", "DX", "dx", "revenue", "shijo"}

Questions == {{"uriage"}, {"revenue", "DX"}}

MaxBlocks == 3

\* the pages: every page of one block drawn from the vocabulary, and the
\* pages of two or three different blocks of a page with equal and unequal
\* scores
Pages ==
    LET generated ==
            UNION {{[text |-> << "t" >>, contains |-> c, tokens |-> t, numeric |-> n,
                     len |-> l] :
                        t \in {LowerAll(c), {}}, n \in BOOLEAN, l \in {8, 10, 798}} :
                   c \in SmallSubsets(BlockVocabulary) \ {{}}}
        Piece(text, contains, tokens, numeric, len) ==
            [text |-> << text >>, contains |-> contains, tokens |-> tokens,
             numeric |-> numeric, len |-> len]
        pieces == {Piece("heading", {"uriage"}, {}, FALSE, 12),
                   Piece("lead", {"shijo"}, {}, FALSE, 40),
                   Piece("table", {"uriage"}, {"uriage"}, TRUE, 30),
                   Piece("footer", {}, {}, FALSE, 20)}
    IN {<< b >> : b \in generated}
       \cup UNION {{bs \in [1..n -> pieces] : \A i, j \in 1..n : bs[i] = bs[j] => i = j} :
                       n \in 2..MaxBlocks}

\* extract_relevant_content on a page, and the scored blocks of the page
\* before and after arg.term is written into its first block
ApplyExtractRelevantContent ==
    /\ app = "pure"
    /\ calc.fn = "extract_relevant_content"
    /\ ~calc.done
    /\ LET a == calc.arg
           grown == << BlockWithTerm(a.blocks[1], a.term, a.glueTo) >> \o Tail(a.blocks)
       IN calc' = [fn |-> calc.fn, arg |-> a, done |-> TRUE,
                   ret |-> [before  |-> relevance_score(a.blocks[1], a.keywords, a.question),
                            after   |-> relevance_score(grown[1], a.keywords, a.question),
                            bothScored |-> BlockScored(a.blocks[1]) /\ BlockScored(grown[1]),
                            scored  |-> relevant_texts(a.blocks, a.keywords, a.question),
                            content |-> extract_relevant_content(a.blocks, a.keywords, a.question)]]
    /\ UNCHANGED <<configVars, crawlerVars, collectorVars, explorer, research, session>>

----------------------------------------------------------------------------
(* StreamlitCompanyResearcher: exploration of the company site.  Every
   on-site URL is written without the "https://{domain}" prefix they all
   share; an href is on-site when it starts with "/". *)

section_types == << "ir", "business", "company", "news", "strategy" >>

base_sections(section_type) ==
    CASE section_type = "ir"       -> << "investor", "ir", "finance" >>
      [] section_type = "business" -> << "business", "service", "product", "solution" >>
      [] section_type = "company"  -> << "company", "about", "corporate" >>
      [] section_type = "news"     -> << "news", "press", "release" >>
      [] section_type = "strategy" -> << "strategy", "vision", "plan", "management" >>

candidate_urls(pattern) ==
    << "/" \o pattern \o "/", "/" \o pattern \o ".html",
       "/jp/" \o pattern \o "/", "/ja/" \o pattern \o "/" >>

important_keywords(section_type) ==
    CASE section_type = "ir" ->
            {"kessan", "gyoseki", "setsumeikai", "chuki", "keikaku", "yukashoken",
             "zaimu", "financial"}
      [] section_type = "business" ->
            {"jigyo_shokai", "service_ja", "seihin", "solution_ja", "tsuyomi", "tokucho"}
      [] section_type = "company" ->
            {"daihyo", "message_ja", "enkaku", "soshiki", "mission", "vision"}
      [] section_type = "news" ->
            {"press_ja", "release_ja", "happyo", "shinchaku", "saishin"}
      [] section_type = "strategy" ->
            {"senryaku", "hoshin", "vision", "keikaku", "torikumi", "DX"}
      [] OTHER -> {}

primary_keywords ==
    {"yukashoken_hokokusho", "kessan_tanshin", "kessan_setsumei", "annual report",
     "chuki_keiei_keikaku", "jigyo_hokokusho", "shihanki_hokoku", "zaimu_shohyo",
     "financial results", "earnings", "quarterly report",
     "gyoseki_setsumei", "toshika_setsumei", "investor presentation"}

primary_document_paths ==
    << "/ir/library/", "/ir/finance/", "/ir/brief/", "/ir/securities/", "/ir/results/",
       "/ir/plan/", "/ir/annual/", "/ir/disclosure/", "/investor/library/",
       "/investor/financials/", "/company/plan/", "/company/management/",
       "/sustainability/report/" >>

SubLinkCap == 3
SubpageCap == 5
SectionSourceCap == 3
SourceBreak == 12
SourceCap == 15
DocumentCap == 5

\* an <a href> of a page: the lowercased terms its text contains, the
\* length of the text and whether the text holds one of the years 2022-2025
Anchor2(href, label, text, len, year) ==
    [href |-> href, label |-> label, text |-> text, len |-> len, year |-> year]

\* href.endswith('.pdf')
EndsWithPdf(href) ==
    href \in {"/ir/tanshin.pdf", "/ir/yuho.pdf", "/ir/integrated.pdf",
              "https://edinet.example/yuho.pdf"}

\* href.startswith('/')
StartsWithSlash(href) == href \notin {"", "mailto:ir", "https://edinet.example/yuho.pdf"}

\* href.startswith('http')
StartsWithHttp(href) == href = "https://edinet.example/yuho.pdf"

\* the section keywords found in href.lower()
HrefLowerTerms(href) == IF href = "/ir/financial.html" THEN {"financial"} ELSE {}

\* the anchors found on the pages of the sites
PageLink(name) ==
    CASE name = "tanshin" ->
          Anchor2("/ir/tanshin.pdf", "kessan tanshin 2024", {"kessan_tanshin", "kessan"}, 9, TRUE)
      [] name = "setsumei" ->
          Anchor2("/ir/setsumei.html", "kessan setsumeikai",
                  {"kessan_setsumei", "kessan", "setsumeikai"}, 7, FALSE)
      [] name = "gyoseki" -> Anchor2("/ir/gyoseki.html", "gyoseki highlight", {"gyoseki"}, 7, FALSE)
      [] name = "zaimu" -> Anchor2("/ir/financial.html", "zaimu joho", {"zaimu"}, 4, FALSE)
      [] name = "plan" ->
          Anchor2("/ir/plan.html", "chuki keiei keikaku",
                  {"chuki_keiei_keikaku", "chuki", "keikaku"}, 6, FALSE)
      [] name = "yuho" ->
          Anchor2("/ir/yuho.pdf", "yukashoken hokokusho",
                  {"yukashoken_hokokusho", "yukashoken"}, 7, FALSE)
      [] name = "report" -> Anchor2("/ir/integrated.pdf", "togo hokokusho", {}, 5, FALSE)
      [] name = "edinet" ->
          Anchor2("https://edinet.example/yuho.pdf", "EDINET yukashoken", {"yukashoken"}, 11, FALSE)
      [] name = "hiring" -> Anchor2("/recruit/", "saiyo joho", {"saiyo"}, 4, FALSE)
      [] name = "short" -> Anchor2("/ir/", "IR", {}, 2, FALSE)
      [] name = "mail" -> Anchor2("mailto:ir", "kessan toiawase", {"kessan"}, 8, FALSE)
      [] name = "service" ->
          Anchor2("/business/service.html", "service shokai", {"service_ja"}, 6, FALSE)
      [] name = "message" ->
          Anchor2("/company/message.html", "daihyo message", {"daihyo", "message_ja"}, 8, FALSE)
      [] name = "history" -> Anchor2("/company/history.html", "enkaku", {"enkaku"}, 3, FALSE)
      [] name = "vision" -> Anchor2("/company/vision.html", "vision", {"vision"}, 4, FALSE)
      [] name = "org" -> Anchor2("/company/org.html", "soshiki zu", {"soshiki"}, 3, FALSE)
      [] name = "press" ->
          Anchor2("/news/2024.html", "press release 2024", {"press_ja", "release_ja"}, 12, TRUE)

Body == << [text |-> << "body" >>, contains |-> {"uriage"}, tokens |-> {},
            numeric |-> TRUE, len |-> 40] >>

\* an answer of the server; again is the status of a repeated request for
\* the same URL
Answer(status, anchors, blocks, again) ==
    [status |-> status, anchors |-> anchors, blocks |-> blocks, again |-> again]

Ok(names, blocks) ==
    Answer("200", [i \in 1..Len(names) |-> PageLink(names[i])], blocks, "200")

ExplorerSites == {"full", "crowded", "flaky", "empty"}

\* what the server of a site answers for a URL
ExPage(s, u) ==
    CASE s \in {"full", "crowded"} /\ u \in {"/investor/", "/ir/library/"} ->
            Ok(<< "tanshin", "setsumei", "gyoseki", "zaimu", "plan", "yuho", "hiring" >>, Body)
      [] s \in {"full", "crowded"} /\ EndsWithPdf(u) -> Ok(<< >>, << >>)
      [] s \in {"full", "crowded"}
         /\ u \in {"/ir/setsumei.html", "/business/service.html", "/company/message.html",
                   "/company/history.html", "/news/2024.html"} -> Ok(<< >>, Body)
      [] s \in {"full", "crowded"} /\ u = "/service.html" -> Answer("exc", << >>, << >>, "exc")
      [] s \in {"full", "crowded"} /\ u = "/jp/service/" -> Ok(<< "service" >>, Body)
      [] s \in {"full", "crowded"} /\ u = "/company/" ->
            Ok(<< "message", "history", "vision", "org" >>, Body)
      [] s \in {"full", "crowded"} /\ u = "/news/" -> Ok(<< "press" >>, Body)
      [] s = "full" /\ u = "/business/" -> Ok(<< >>, Body)
      [] s = "crowded" /\ u = "/business/" -> Ok(<< "service" >>, Body)
      [] s = "crowded" /\ u = "/press/" -> Ok(<< "press" >>, Body)
      [] s = "flaky" /\ u \in {"/investor/", "/ir/brief/"} ->
            Answer("exc", << >>, << >>, "exc")
      [] s = "flaky" /\ u = "/investor.html" ->
            Ok(<< "short", "mail", "gyoseki", "edinet", "yuho" >>, << >>)
      [] s = "flaky" /\ u = "/ir/yuho.pdf" -> Answer("200", << >>, << >>, "exc")
      [] s = "flaky" /\ u \in {"/ir/gyoseki.html", "/ir/"} -> Ok(<< >>, Body)
      [] s = "flaky" /\ u = "/ir/library/" ->
            Ok(<< "report", "tanshin", "gyoseki", "setsumei", "plan", "yuho", "press" >>, Body)
      [] s = "flaky" /\ u = "/ir/finance/" -> Ok(<< "edinet", "zaimu", "tanshin" >>, Body)
      [] OTHER -> Answer("404", << >>, << >>, "404")

\* relevance_score of discover_subpages (lines 484-495)
subpage_score(anchor, section_type) ==
    2 * Cardinality(important_keywords(section_type) \cap anchor.text)
    + Cardinality(important_keywords(section_type) \cap HrefLowerTerms(anchor.href))
    + (IF EndsWithPdf(anchor.href) THEN 3 ELSE 0)

\* subpages before the sort, in document order
RECURSIVE scored_subpages(_, _)
scored_subpages(anchors, section_type) ==
    IF anchors = << >> THEN << >>
    ELSE LET a    == Head(anchors)
             rest == scored_subpages(Tail(anchors), section_type)
         IN IF a.href = "" \/ a.len < 3 THEN rest
            ELSE IF ~StartsWithSlash(a.href) /\ ~StartsWithHttp(a.href) THEN rest
            ELSE IF subpage_score(a, section_type) > 0
                 THEN << [url |-> a.href, text |-> a.label,
                          score |-> subpage_score(a, section_type)] >> \o rest
                 ELSE rest

discover_subpages(anchors, section_type) ==
    LET top == Take(SortByScoreDesc(scored_subpages(anchors, section_type)), SubpageCap)
    IN [i \in 1..Len(top) |-> top[i].url]

\* the parts '/ir/', '/news/', ... found in a URL
UrlParts(url) ==
    CASE url \in {"/ir/tanshin.pdf", "/ir/yuho.pdf", "/ir/integrated.pdf", "/ir/setsumei.html",
                  "/ir/gyoseki.html", "/ir/financial.html", "/ir/plan.html", "/ir/"} -> {"/ir/"}
      [] url = "/news/2024.html" -> {"/news/"}
      [] url = "/recruit/" -> {"/recruit/"}
      [] url \in {"/company/message.html", "/company/history.html", "/company/vision.html",
                  "/company/org.html"} -> {"/company/"}
      [] OTHER -> {}

classify_source_type(url) ==
    IF "/ir/" \in UrlParts(url) THEN "IR_joho"
    ELSE IF "/news/" \in UrlParts(url) THEN "news"
    ELSE IF "/recruit/" \in UrlParts(url) THEN "saiyo_joho"
    ELSE IF "/company/" \in UrlParts(url) THEN "kaisha_gaiyo"
    ELSE IF "/sustainability/" \in UrlParts(url) THEN "sustainability"
    ELSE "kigyo_joho"

\* extract_search_keywords, for the categories the questions can hit
extract_search_keywords(question) ==
    LET found == (IF question \cap {"uriage", "revenue", "gyoseki", "kessan"} # {}
                  THEN {"uriage", "revenue", "gyoseki", "kessan"} ELSE {})
                 \cup (IF question \cap {"gijutsu", "technology", "system"} # {}
                       THEN {"gijutsu", "technology", "IT", "DX", "system"} ELSE {})
    IN IF found # {} THEN found ELSE {"kigyo_joho", "kaisha_gaiyo"}

BaseItem(url, content, section_type) ==
    LET title == CASE section_type = "ir"       -> "Ir"
                   [] section_type = "business" -> "Business"
                   [] section_type = "company"  -> "Company"
                   [] section_type = "news"     -> "News"
                   [] section_type = "strategy" -> "Strategy"
    IN [url |-> url, content |-> content,
        source_type |-> title \o "_joho", depth |-> "base"]

DeepItem(url, content) ==
    [url |-> url, content |-> content,
     source_type |-> classify_source_type(url), depth |-> "deep"]

PdfItemUnlabelled(pdf_url) ==
    [url |-> pdf_url, content |-> << "PDF", pdf_url >>, depth |-> "document"]

PdfItem(pdf_url) ==
    [url |-> pdf_url, content |-> << "PDF", pdf_url >>,
     source_type |-> "PDF_shiryo", depth |-> "document"]

\* relevance_score of discover_important_documents (lines 600-619)
document_score(anchor, keywords) ==
    10 * Cardinality(primary_keywords \cap anchor.text)
    + (IF anchor.year THEN 5 ELSE 0)
    + (IF EndsWithPdf(anchor.href) THEN 8 ELSE 0)
    + 3 * Cardinality({k \in keywords : Lower(k) \in anchor.text})

DocumentItem(anchor, keywords) ==
    [url |-> anchor.href, content |-> << "ichiji_joho", anchor.label >>,
     source_type |-> "koshiki_kaiji_shiryo", depth |-> "primary_document",
     relevance_score |-> document_score(anchor, keywords)]

DocumentKeptAlways(anchor, keywords) == TRUE

\* line 621: the threshold an anchor has to reach to become a document
DocumentKept(anchor, keywords) == document_score(anchor, keywords) >= 8

\* the link loop of one path page (lines 592-636): documents after the loop
RECURSIVE scan_document_links(_, _, _)
scan_document_links(anchors, documents, keywords) ==
    IF anchors = << >> THEN documents
    ELSE LET a == Head(anchors)
         IN IF a.href = "" \/ a.len < 3
            THEN scan_document_links(Tail(anchors), documents, keywords)
            ELSE LET docs == IF DocumentKept(a, keywords)
                             THEN Append(documents, DocumentItem(a, keywords))
                             ELSE documents
                 IN IF Len(docs) >= DocumentCap THEN docs
                    ELSE scan_document_links(Tail(anchors), docs, keywords)

\* documents.sort(key=relevance_score, reverse=True): stable
RECURSIVE InsertByRelevance(_, _)
InsertByRelevance(sorted, x) ==
    IF sorted = << >> THEN << x >>
    ELSE IF sorted[1].relevance_score >= x.relevance_score
         THEN << sorted[1] >> \o InsertByRelevance(Tail(sorted), x)
         ELSE << x >> \o sorted

RECURSIVE SortByRelevanceDesc(_)
SortByRelevanceDesc(items) ==
    IF items = << >> THEN << >>
    ELSE InsertByRelevance(SortByRelevanceDesc(SubSeq(items, 1, Len(items) - 1)),
                           items[Len(items)])

(* search_existing_sources and the functions it calls, one step per HTTP
   request.  requests logs every session.get; explored logs every call of
   explore_subpage with the base page it was called for. *)

ExplorerStart(s, question, hasDomain) ==
    [pc |-> "start", site |-> s, question |-> question, company_domain |-> hasDomain,
     search_keywords |-> {}, sidx |-> 1, pat |-> 1, cand |-> 1, base_url |-> "",
     sources |-> << >>, section_sources |-> << >>, subpage_links |-> << >>,
     subidx |-> 1, additional_sources |-> << >>, didx |-> 1, documents |-> << >>,
     result |-> << >>, requests |-> << >>, explored |-> << >>]

section_type == section_types[explorer.sidx]

base_url == candidate_urls((base_sections(section_type))[explorer.pat])[explorer.cand]

AllSubLinks(links) == links

\* subpage_links[:3]
SubLinks(links) == Take(links, SubLinkCap)

sublink == SubLinks(explorer.subpage_links)[explorer.subidx]

Requested(e, url, by) ==
    [e EXCEPT !.requests = Append(@, [url |-> url, by |-> by, call |-> Len(e.explored)])]

\* lines 375-383: the section is over; next section or the documents step
NextSection(e, sources) ==
    LET all == e.additional_sources \o sources
    IN IF Len(all) >= SourceBreak \/ e.sidx = Len(section_types)
       THEN [e EXCEPT !.additional_sources = all, !.section_sources = sources,
                      !.sources = << >>, !.pc = "documents", !.didx = 1]
       ELSE [e EXCEPT !.additional_sources = all, !.section_sources = sources,
                      !.sources = << >>, !.sidx = @ + 1, !.pat = 1, !.cand = 1,
                      !.pc = "base"]

\* lines 447-450: the candidates of one pattern are over
NextPattern(e, sources) ==
    IF Len(sources) >= SectionSourceCap
       \/ e.pat = Len(base_sections(section_types[e.sidx]))
    THEN NextSection(e, sources)
    ELSE [e EXCEPT !.sources = sources, !.pat = @ + 1, !.cand = 1, !.pc = "base"]

\* lines 418-419, 444-445: continue with the next candidate URL
NextCandidate(e) ==
    IF e.cand < Len(candidate_urls("")) THEN [e EXCEPT !.cand = @ + 1]
    ELSE NextPattern(e, e.sources)

\* lines 437-442: next sub-link of the base page, or break
NextSublink(e, sources) ==
    IF e.subidx < Len(SubLinks(e.subpage_links))
    THEN [e EXCEPT !.sources = sources, !.subidx = @ + 1, !.pc = "sub"]
    ELSE NextPattern(e, sources)

\* lines 346-359
ExploreBegin ==
    /\ app = "explorer"
    /\ explorer.pc = "start"
    /\ explorer' =
          IF explorer.company_domain
          THEN [explorer EXCEPT !.pc = "base",
                                !.search_keywords = extract_search_keywords(explorer.question)]
          ELSE [explorer EXCEPT !.pc = "done", !.result = << >>]
    /\ UNCHANGED <<configVars, crawlerVars, collectorVars, calc, research, session>>

\* line 417 answered by a status other than 200 or by an exception
BaseFetchFailed ==
    /\ app = "explorer"
    /\ explorer.pc = "base"
    /\ ExPage(explorer.site, base_url).status # "200"
    /\ explorer' = NextCandidate(Requested(explorer, base_url, "base"))
    /\ UNCHANGED <<configVars, crawlerVars, collectorVars, calc, research, session>>

\* lines 417-442 up to the first sub-link
BaseFetchOk ==
    /\ app = "explorer"
    /\ explorer.pc = "base"
    /\ LET page == ExPage(explorer.site, base_url)
           links == discover_subpages(page.anchors, section_type)
           base_content == extract_relevant_content(page.blocks, explorer.search_keywords,
                                                    explorer.question)
           sources == IF base_content # << >>
                      THEN Append(explorer.sources,
                                  BaseItem(base_url, base_content, section_type))
                      ELSE explorer.sources
           e == [Requested(explorer, base_url, "base") EXCEPT
                     !.base_url = base_url, !.subpage_links = links, !.subidx = 1]
       IN /\ page.status = "200"
          /\ explorer' = IF SubLinks(links) = << >>
                         THEN NextPattern(e, sources)
                         ELSE [e EXCEPT !.sources = sources, !.pc = "sub"]
    /\ UNCHANGED <<configVars, crawlerVars, collectorVars, calc, research, session>>

Explored(e, url) ==
    LET called == [e EXCEPT !.explored = Append(@, [base |-> e.base_url, url |-> url])]
    IN Requested(called, url, "explore_subpage")

\* explore_subpage, lines 511-513 and 531-534
ExploreSubpageFailed ==
    /\ app = "explorer"
    /\ explorer.pc = "sub"
    /\ ExPage(explorer.site, sublink).status # "200"
    /\ explorer' = NextSublink(Explored(explorer, sublink), explorer.sources)
    /\ UNCHANGED <<configVars, crawlerVars, collectorVars, calc, research, session>>

\* explore_subpage, lines 511-529
ExploreSubpageHtml ==
    /\ app = "explorer"
    /\ explorer.pc = "sub"
    /\ ExPage(explorer.site, sublink).status = "200"
    /\ ~EndsWithPdf(sublink)
    /\ LET content == extract_relevant_content(ExPage(explorer.site, sublink).blocks,
                                               explorer.search_keywords, explorer.question)
           sources == IF content # << >>
                      THEN Append(explorer.sources, DeepItem(sublink, content))
                      ELSE explorer.sources
       IN explorer' = NextSublink(Explored(explorer, sublink), sources)
    /\ UNCHANGED <<configVars, crawlerVars, collectorVars, calc, research, session>>

\* explore_subpage, lines 511-517: the URL answered 200 and ends with .pdf
ExploreSubpagePdf ==
    /\ app = "explorer"
    /\ explorer.pc = "sub"
    /\ ExPage(explorer.site, sublink).status = "200"
    /\ EndsWithPdf(sublink)
    /\ explorer' = [Explored(explorer, sublink) EXCEPT !.pc = "pdf"]
    /\ UNCHANGED <<configVars, crawlerVars, collectorVars, calc, research, session>>

\* extract_pdf_content, lines 538-550, and the return through line 517
ExtractPdfContent ==
    /\ app = "explorer"
    /\ explorer.pc = "pdf"
    /\ LET sources == IF ExPage(explorer.site, sublink).again = "200"
                      THEN Append(explorer.sources, PdfItem(sublink))
                      ELSE explorer.sources
       IN explorer' = NextSublink(Requested(explorer, sublink, "extract_pdf_content"),
                                  sources)
    /\ UNCHANGED <<configVars, crawlerVars, collectorVars, calc, research, session>>

\* discover_important_documents: one path per step (lines 583-639); after
\* the last path lines 642-649 and 390-396
DocumentsFetch ==
    /\ app = "explorer"
    /\ explorer.pc = "documents"
    /\ LET url  == primary_document_paths[explorer.didx]
           page == ExPage(explorer.site, url)
           docs == IF page.status = "200"
                   THEN scan_document_links(page.anchors, explorer.documents,
                                            explorer.search_keywords)
                   ELSE explorer.documents
           e    == [Requested(explorer, url, "discover_important_documents") EXCEPT
                        !.documents = docs]
           document_sources == Take(SortByRelevanceDesc(docs), DocumentCap)
           all  == e.additional_sources \o document_sources
       IN explorer' =
             IF explorer.didx < Len(primary_document_paths)
             THEN [e EXCEPT !.didx = @ + 1]
             ELSE [e EXCEPT !.additional_sources = all,
                            !.result = Take(all, SourceCap), !.pc = "done"]
    /\ UNCHANGED <<configVars, crawlerVars, collectorVars, calc, research, session>>

----------------------------------------------------------------------------
(* The search-result filters.  A result is described by the terms its
   lowercased title and snippet contain and by its link. *)

SearchResult(title, snippet, link) == [title |-> title, snippet |-> snippet, link |-> link]

\* the strings the filters look for that a link contains
LinkTerms(link) ==
    CASE link = "https://www.nikkei.com/article/acme" -> {"nikkei.com", "acme"}
      [] link = "https://jp.indeed.com/cmp/acme"      -> {"indeed", "acme"}
      [] link = "https://acme.co.jp/recruit/"         -> {".co.jp", "acme"}
      [] link = "https://acme.co.jp/ir/yuho.pdf"      -> {".co.jp", "acme", ".pdf"}
      [] link = "https://acme.co.jp/company/"         -> {".co.jp", "acme"}
      [] link = "https://toyokeizai.net/acme"         -> {"toyokeizai.net", "acme"}
      [] link = "https://blog.example/acme"           -> {"acme"}
      [] OTHER -> {}

ResultKinds ==
    {SearchResult({"acme", "gyoseki", "shijo", "bunseki"}, {"acme", "uriage"},
                  "https://www.nikkei.com/article/acme"),
     SearchResult({"acme", "gyoseki", "shijo", "gyokai"}, {"acme", "uriage"},
                  "https://jp.indeed.com/cmp/acme"),
     SearchResult({"acme", "kyujin"}, {"acme", "saiyo", "gyoseki"},
                  "https://acme.co.jp/recruit/"),
     SearchResult({"acme", "kessan", "yukashoken_hokokusho"}, {"acme", "zaimu"},
                  "https://acme.co.jp/ir/yuho.pdf"),
     SearchResult({"acme", "kaisha_gaiyo"}, {"acme", "jigyo_naiyo"},
                  "https://acme.co.jp/company/"),
     SearchResult({"acme"}, {"acme"}, "https://toyokeizai.net/acme"),
     SearchResult({"acme"}, {"shijo"}, "https://blog.example/acme"),
     SearchResult({"gyoseki", "shijo"}, {"uriage"}, "https://www.nikkei.com/article/acme")}

MaxResults == 2

exclude_keywords(filter) ==
    CASE filter = "filter_relevant_results" ->
            {"kyujin", "tenshoku", "saiyo", "mensetsu", "shukatsu", "shinsotsu", "chuto",
             "kuchikomi", "indeed", "rikunabi"}
      [] filter = "filter_ir_documents" ->
            {"kyujin", "tenshoku", "saiyo", "shinsotsu", "kuchikomi", "indeed", "rikunabi",
             "mynavi"}
      [] filter = "filter_company_fundamental_results" ->
            {"kyujin", "tenshoku", "saiyo", "shinsotsu", "kuchikomi", "indeed", "rikunabi",
             "mynavi", "en_tenshoku"}

\* the exclusion test of the three filters (lines 758, 848, 945)
Excluded(r, filter) == exclude_keywords(filter) \cap (r.title \cup r.snippet) # {}

\* lines 762, 852, 949
MentionsCompany(r) == "acme" \in r.title \cup r.snippet

keyword_score(r, keywords, titlePoints) ==
    titlePoints * Cardinality(keywords \cap r.title) + Cardinality(keywords \cap r.snippet)

\* relevance_score of filter_relevant_results (lines 766-776)
result_relevance_score(r) ==
    keyword_score(r, {"shijo", "gyokai", "uriage", "rieki", "gyoseki", "share", "kyogo",
                      "jigyo", "senryaku", "bunseki"}, 2)
    + (IF {"nikkei.com", "toyokeizai.net", "diamond.jp", "itmedia.co.jp"}
              \cap LinkTerms(r.link) # {} THEN 3 ELSE 0)

\* ir_score of filter_ir_documents (lines 856-870)
ir_score(r) ==
    keyword_score(r, {"kessan", "yukashoken_hokokusho", "chuki_keiei_keikaku", "gyoseki", "IR",
                      "toshika", "zaimu", "uriage", "rieki", "senryaku"}, 3)
    + (IF {".pdf", "filetype:pdf"} \cap LinkTerms(r.link) # {} THEN 2 ELSE 0)
    + (IF {"acme", ".co.jp"} \cap LinkTerms(r.link) # {} THEN 2 ELSE 0)

\* fundamental_score of filter_company_fundamental_results (lines 953-963)
fundamental_score(r) ==
    keyword_score(r, {"kaisha_gaiyo", "kigyo_gaiyo", "jigyo_naiyo", "shuryoku_jigyo", "gyokai",
                      "kyogo", "sector", "uriage_kosei"}, 3)
    + (IF {"acme", ".co.jp"} \cap LinkTerms(r.link) # {} THEN 3 ELSE 0)

FilterScore(r, filter) ==
    CASE filter = "filter_relevant_results" -> result_relevance_score(r)
      [] filter = "filter_ir_documents" -> ir_score(r)
      [] filter = "filter_company_fundamental_results" -> fundamental_score(r)

FilterThreshold(filter) ==
    CASE filter = "filter_relevant_results" -> 3
      [] filter = "filter_ir_documents" -> 3
      [] filter = "filter_company_fundamental_results" -> 2

\* filtered_results before the sort; the score is stored in the result
RECURSIVE filtered_results(_, _)
filtered_results(results, filter) ==
    IF results = << >> THEN << >>
    ELSE LET r    == Head(results)
             rest == filtered_results(Tail(results), filter)
         IN IF Excluded(r, filter) THEN rest
            ELSE IF ~MentionsCompany(r) THEN rest
            ELSE IF FilterScore(r, filter) >= FilterThreshold(filter)
                 THEN << [title |-> r.title, snippet |-> r.snippet, link |-> r.link,
                          score |-> FilterScore(r, filter)] >> \o rest
                 ELSE rest

filter_relevant_results(results) ==
    SortByScoreDesc(filtered_results(results, "filter_relevant_results"))

filter_ir_documents(results) ==
    SortByScoreDesc(filtered_results(results, "filter_ir_documents"))

filter_company_fundamental_results(results) ==
    SortByScoreDesc(filtered_results(results, "filter_company_fundamental_results"))

ApplyFilterRelevantResults ==
    /\ app = "pure"
    /\ calc.fn = "filter_relevant_results"
    /\ ~calc.done
    /\ calc' = [fn |-> calc.fn, arg |-> calc.arg, done |-> TRUE,
                ret |-> filter_relevant_results(calc.arg.results)]
    /\ UNCHANGED <<configVars, crawlerVars, collectorVars, explorer, research, session>>

ApplyFilterIrDocuments ==
    /\ app = "pure"
    /\ calc.fn = "filter_ir_documents"
    /\ ~calc.done
    /\ calc' = [fn |-> calc.fn, arg |-> calc.arg, done |-> TRUE,
                ret |-> filter_ir_documents(calc.arg.results)]
    /\ UNCHANGED <<configVars, crawlerVars, collectorVars, explorer, research, session>>

ApplyFilterCompanyFundamentalResults ==
    /\ app = "pure"
    /\ calc.fn = "filter_company_fundamental_results"
    /\ ~calc.done
    /\ calc' = [fn |-> calc.fn, arg |-> calc.arg, done |-> TRUE,
                ret |-> filter_company_fundamental_results(calc.arg.results)]
    /\ UNCHANGED <<configVars, crawlerVars, collectorVars, explorer, research, session>>

----------------------------------------------------------------------------
(* StreamlitCompanyResearcher.research_company.  events logs, in order,
   what the run does towards the outside: a warning that the SerpAPI key is
   missing, a request to the search provider, a request to the company
   site, the call of the LLM. *)

ir_search_queries == 3
search_queries == 2

\* the keys of the company_info dict that main's form handler builds
\* (lines 2326-2334)
form_company_info ==
    {"company_name", "analysis_level", "max_crawl_depth", "date_range",
     "enable_hallucination_check", "enable_chat", "timestamp"}

\* the keys read by indexing, company_info[key], which raises KeyError for
\* a missing key: by create_ir_integrated_prompt (lines 1776-1777; line 1778
\* uses .get) and by the result summary of main (lines 2393-2399)
indexed_keys(reader) ==
    IF reader = "prompt" THEN {"company_name", "focus_area"}
    ELSE {"company_name", "focus_area", "analysis_level", "timestamp"}

ResearchStart(hasKey, company_info) ==
    [pc |-> "ir_search", serpapi_key |-> hasKey, company_info |-> company_info,
     query |-> 1, events |-> << >>,
     answers |-> << >>, ir_data |-> << >>, external_data |-> << >>,
     result |-> "none"]

\* organic_results of an answered search
OrganicResults ==
    << SearchResult({"acme", "gyoseki", "shijo", "bunseki"}, {"acme", "uriage"},
                    "https://www.nikkei.com/article/acme"),
       SearchResult({"acme", "kyujin"}, {"acme", "saiyo", "gyoseki"},
                    "https://acme.co.jp/recruit/"),
       SearchResult({"acme", "kessan", "yukashoken_hokokusho"}, {"acme", "zaimu"},
                    "https://acme.co.jp/ir/yuho.pdf") >>

\* the outcomes of one search_with_serpapi call (lines 1044-1062) as its
\* callers see them: a JSON answer with organic_results, a JSON answer
\* without them, None after a status other than 200, an exception of
\* requests.get or response.json
SearchOutcomes == {"results", "no_results", "non200", "exception"}

\* the items one query adds: the first two filtered results when the answer
\* has organic_results (lines 809-812 and 717-720), nothing in the else
\* branch and in the except branch
QueryItemsKeepStale(outcome, kept) ==
    IF outcome \in {"results", "non200"} THEN Take(kept, 2) ELSE << >>

QueryItems(outcome, kept) ==
    IF outcome = "results" THEN Take(kept, 2) ELSE << >>

\* lines 1878-1902 with no key: search_ir_documents_with_serpapi warns at
\* line 794 after get_serpapi_key has warned, and returns []; Step 2
\* (lines 1904-1905) only prints a message
IrSearchWithoutKey ==
    /\ app = "research"
    /\ research.pc = "ir_search"
    /\ ~research.serpapi_key
    /\ research' = [research EXCEPT
                       !.events = @ \o << "key_missing_warning", "key_missing_warning" >>,
                       !.ir_data = << >>,
                       !.pc = "external_search"]
    /\ UNCHANGED <<configVars, crawlerVars, collectorVars, calc, explorer, session>>

\* lines 804-831: one query of search_ir_documents_with_serpapi
IrSearchQuery ==
    /\ app = "research"
    /\ research.pc = "ir_search"
    /\ research.serpapi_key
    /\ \E outcome \in SearchOutcomes :
          LET found == QueryItems(outcome, filter_ir_documents(OrganicResults))
              ir_data == research.ir_data \o found
              asked == [research EXCEPT
                           !.events = Append(@, "search_request"),
                           !.answers = Append(@, [fn |-> "ir", outcome |-> outcome])]
          IN research' =
                IF research.query < ir_search_queries
                THEN [asked EXCEPT !.ir_data = ir_data, !.query = @ + 1]
                ELSE [asked EXCEPT !.ir_data = Take(ir_data, 6), !.query = 1,
                                   !.pc = "external_search"]
    /\ UNCHANGED <<configVars, crawlerVars, collectorVars, calc, explorer, session>>

\* lines 702-704 with no key: get_serpapi_key warns, the fallback data is
\* returned
ExternalSearchWithoutKey ==
    /\ app = "research"
    /\ research.pc = "external_search"
    /\ ~research.serpapi_key
    /\ research' = [research EXCEPT
                       !.events = Append(@, "key_missing_warning"),
                       !.external_data = << "fallback", "fallback" >>,
                       !.pc = "llm"]
    /\ UNCHANGED <<configVars, crawlerVars, collectorVars, calc, explorer, session>>

\* lines 712-741: one query of search_external_sources
ExternalSearchQuery ==
    /\ app = "research"
    /\ research.pc = "external_search"
    /\ research.serpapi_key
    /\ \E outcome \in SearchOutcomes :
          LET found == QueryItems(outcome, filter_relevant_results(OrganicResults))
              external_data == research.external_data \o found
              asked == [research EXCEPT
                           !.events = Append(@, "search_request"),
                           !.answers = Append(@, [fn |-> "external",
                                                  outcome |-> outcome])]
          IN research' =
                IF research.query < search_queries
                THEN [asked EXCEPT !.external_data = external_data, !.query = @ + 1]
                ELSE [asked EXCEPT
                         !.external_data = Take(SortByScoreDesc(external_data), 4),
                         !.pc = "llm"]
    /\ UNCHANGED <<configVars, crawlerVars, collectorVars, calc, explorer, session>>

\* lines 1934-1971: the prompt is built outside any try block, so a missing
\* key leaves research_company as a KeyError; then the LLM call returns
\* research_data, or None after an error
CallLlm ==
    /\ app = "research"
    /\ research.pc = "llm"
    /\ \E answer \in {"json", "not_json", "exception"} :
          research' =
             IF indexed_keys("prompt") \subseteq research.company_info
             THEN [research EXCEPT
                      !.events = Append(@, "llm_call"),
                      !.result = IF answer = "json" THEN "research_data" ELSE "None",
                      !.pc = "done"]
             ELSE [research EXCEPT !.result = "KeyError", !.pc = "raised"]
    /\ UNCHANGED <<configVars, crawlerVars, collectorVars, calc, explorer, session>>

----------------------------------------------------------------------------
(* main: the form handler and the result view over st.session_state, of
   streamlit_app_clean.py ("clean") and of streamlit_app.py ("full").  One
   action is one run of the script.  An analysis is named by the number of
   the submission that started it; analysis_results = 0 stands for a session
   without the key.  In streamlit_app.py every analysis ends in the KeyError
   of create_ir_integrated_prompt, so no result is ever stored and the chat
   section below the result view (lines 2494-2544) is never run. *)

\* number of analyses submitted in one session
MaxSubmits == 3

SessionStart(file) ==
    [file |-> file, analysis_results |-> 0, submits |-> 0, last |-> "none",
     view |-> [banner |-> FALSE, shown |-> 0, error |-> FALSE]]

\* what one run displays after the form handler: the error of a failed
\* analysis, and the result view with its success banner whenever
\* 'analysis_results' is in st.session_state (clean lines 307-320)
Render(stored, error) == [banner |-> stored # 0, shown |-> stored, error |-> error]

\* clean lines 275-278, full lines 2317-2320: no company name; main returns
SubmitWithoutName ==
    /\ app = "session"
    /\ session' = [session EXCEPT
                      !.view = [banner |-> FALSE, shown |-> 0, error |-> TRUE]]
    /\ UNCHANGED <<configVars, crawlerVars, collectorVars, calc, explorer, research>>

\* clean lines 279-310: analyze_company returns a result, which is stored,
\* or None, and then the session keeps what it held
SubmitAnalysis ==
    /\ app = "session"
    /\ session.file = "clean"
    /\ session.submits < MaxSubmits
    /\ \E analysis_result \in {"result", "None"} :
          session' =
             IF analysis_result = "result"
             THEN [session EXCEPT
                      !.submits = @ + 1,
                      !.last = "ok",
                      !.analysis_results = session.submits + 1,
                      !.view = Render(session.submits + 1, FALSE)]
             ELSE [session EXCEPT
                      !.submits = @ + 1,
                      !.last = "failed",
                      !.view = Render(session.analysis_results, TRUE)]
    /\ UNCHANGED <<configVars, crawlerVars, collectorVars, calc, explorer, research>>

\* full lines 2326-2345: research_company is called with the record of the
\* form handler and raises KeyError (line 1777); the run ends there
SubmitRaises ==
    /\ app = "session"
    /\ session.file = "full"
    /\ session.submits < MaxSubmits
    /\ ~(indexed_keys("prompt") \subseteq form_company_info)
    /\ session' = [session EXCEPT
                      !.submits = @ + 1,
                      !.last = "raised",
                      !.view = [banner |-> FALSE, shown |-> 0, error |-> TRUE]]
    /\ UNCHANGED <<configVars, crawlerVars, collectorVars, calc, explorer, research>>

\* a run without a submission (any other widget, e.g. the download button)
Rerun ==
    /\ app = "session"
    /\ session' = [session EXCEPT !.view = Render(session.analysis_results, FALSE)]
    /\ UNCHANGED <<configVars, crawlerVars, collectorVars, calc, explorer, research>>

\* clean lines 375-378: the button of the result view deletes
\* analysis_results and reruns the script
NewAnalysisButton ==
    /\ app = "session"
    /\ session.view.banner
    /\ session' = [session EXCEPT !.analysis_results = 0, !.view = Render(0, FALSE)]
    /\ UNCHANGED <<configVars, crawlerVars, collectorVars, calc, explorer, research>>

----------------------------------------------------------------------------
(* Specification *)

\* inputs of the pure functions
CalcInputs ==
    {[fn |-> "score_content_importance",
      arg |-> [content |-> Closure(c), url |-> u, term |-> t],
      done |-> FALSE] :
        c \in SmallSubsets(ScoreVocabulary),
        u \in {"/ir/", "/ir/yuho.pdf", "/IR/report.pdf"},
        t \in ScoreVocabulary}
    \cup
    {[fn |-> "extract_relevant_content",
      arg |-> [blocks |-> bs, keywords |-> ks, question |-> q, term |-> t, glueTo |-> g],
      done |-> FALSE] :
        bs \in Pages,
        ks \in {{"uriage", "revenue", "gyoseki", "kessan"},
                {"gijutsu", "technology", "IT", "DX", "system"}},
        q \in Questions,
        t \in important_terms \cap BlockVocabulary,
        g \in {"none", "uriage", "dx"}}
    \cup
    {[fn |-> f, arg |-> [results |-> rs], done |-> FALSE] :
        f \in {"filter_relevant_results", "filter_ir_documents",
               "filter_company_fundamental_results"},
        rs \in UNION {[1..n -> ResultKinds] : n \in 0..MaxResults}}

Init ==
    /\ app \in {"crawler", "collector", "pure", "explorer", "research", "session"}
    /\ IF app = "crawler"
       THEN /\ site \in SiteNames
            /\ ir_url \in {DefaultIrUrl, CustomIrUrl}
            /\ max_depth \in 0..DefaultMaxDepth
       ELSE /\ site = "wide"
            /\ ir_url = DefaultIrUrl
            /\ max_depth = DefaultMaxDepth
    /\ responses = [u \in Urls |-> "unset"]
    /\ now = 1
    /\ pc = "patterns"
    /\ pidx = 1
    /\ stack = << >>
    /\ all_content = << >>
    /\ result = << >>
    /\ fetchLog = << >>
    /\ run = 1
    /\ firstResult = << >>
    /\ cpc = "patterns"
    /\ cidx = 1
    /\ collected_data = << >>
    /\ cresult = << >>
    /\ clog = << >>
    /\ calc \in (IF app = "pure" THEN CalcInputs ELSE {[fn |-> "none"]})
    /\ explorer \in (IF app = "explorer"
                     THEN {ExplorerStart(s, q, TRUE) : s \in ExplorerSites, q \in Questions}
                          \cup {ExplorerStart("empty", q, FALSE) : q \in Questions}
                     ELSE {[pc |-> "idle"]})
    /\ research \in (IF app = "research"
                     THEN {ResearchStart(k, info) :
                              k \in BOOLEAN,
                              info \in {form_company_info,
                                        form_company_info \cup {"focus_area"}}}
                     ELSE {[pc |-> "idle"]})
    /\ session \in (IF app = "session"
                    THEN {SessionStart(f) : f \in {"clean", "full"}}
                    ELSE {[file |-> "none"]})

Next ==
    \/ CrawlTryPattern
    \/ DepthExceeded
    \/ FetchOk
    \/ FetchNetworkError
    \/ FetchParseError
    \/ LinkResolveError
    \/ SkipLink
    \/ FollowLink
    \/ ReturnDiscovered
    \/ Finalize
    \/ NextRun
    \/ CollectOk
    \/ CollectNon200
    \/ CollectRequestException
    \/ CollectOtherException
    \/ CollectReturn
    \/ ApplyScoreContentImportance
    \/ ApplyExtractRelevantContent
    \/ ApplyFilterRelevantResults
    \/ ApplyFilterIrDocuments
    \/ ApplyFilterCompanyFundamentalResults
    \/ ExploreBegin
    \/ BaseFetchFailed
    \/ BaseFetchOk
    \/ ExploreSubpageFailed
    \/ ExploreSubpageHtml
    \/ ExploreSubpagePdf
    \/ ExtractPdfContent
    \/ DocumentsFetch
    \/ IrSearchWithoutKey
    \/ IrSearchQuery
    \/ ExternalSearchWithoutKey
    \/ ExternalSearchQuery
    \/ CallLlm
    \/ SubmitWithoutName
    \/ SubmitAnalysis
    \/ SubmitRaises
    \/ Rerun
    \/ NewAnalysisButton

Spec == Init /\ [][Next]_vars

\* one run of crawl_with_intelligence on the sites whose pages link to
\* themselves, to each other or in a chain, or hold unusable anchors
LiveInit == Init /\ app = "crawler" /\ site \in {"cycle", "chain", "badhref", "long"}

LiveNext ==
    \/ CrawlTryPattern
    \/ DepthExceeded
    \/ FetchOk
    \/ FetchNetworkError
    \/ FetchParseError
    \/ LinkResolveError
    \/ SkipLink
    \/ FollowLink
    \/ ReturnDiscovered
    \/ Finalize

\* the code is one synchronous thread and every request returns or times
\* out (timeout=15): whatever step is possible is eventually taken
LiveSpec == LiveInit /\ [][LiveNext]_vars /\ WF_vars(LiveNext)

----------------------------------------------------------------------------
(* Observations on a run *)

\* URLs whose request was answered and recorded during the current run
FetchedUrls == {fetchLog[i].url : i \in {j \in 1..Len(fetchLog) : fetchLog[j].ok}}

SeedFetches == SelectSeq(fetchLog, LAMBDA e : e.depth = 0)

UrlsOf(items) == [i \in 1..Len(items) |-> items[i].url]

HasDuplicates(s) == \E i, j \in 1..Len(s) : i < j /\ s[i] = s[j]

AllFetchesFailed == fetchLog # << >> /\ \A i \in 1..Len(fetchLog) : ~fetchLog[i].ok

\* terms of the exclusion lists (job postings)
DisqualifyingTerms == {"kyujin", "saiyo"}

AllAnchors == UNION {Range(Links(site, u)) : u \in Urls}

\* URLs that the site links to through an anchor whose text carries a
\* job-posting term (no URL of the modelled site contains one)
JobLinkTargets == {l.href : l \in {m \in AllAnchors : m.text \cap DisqualifyingTerms # {}}}

HasParsableDate(u) == \E i \in 1..Len(DateMatches(u)) : DateMatches(u)[i] # 0

----------------------------------------------------------------------------
(* Claims *)

\* C1: in one run the number of distinct URLs fetched never exceeds the
\* 5-item source budget (requests that failed are not even counted here).
C1_BudgetRespected == Cardinality(FetchedUrls) <= DiscoveredCutoff

\* C2: during one run every URL is fetched at most once.
C2_FetchedAtMostOnce == ~HasDuplicates(UrlsOf(fetchLog))

\* C3: when every fetch of a run fails, the run ends with an empty list.
C3_AllFailedGivesEmpty ==
    (app = "crawler" /\ pc = "done" /\ AllFetchesFailed) => result = << >>

C3_Witness ==
    /\ pc = "done"
    /\ AllFetchesFailed
    /\ Len(fetchLog) = Len(ir_patterns)
    /\ \E u \in Urls : responses[u] = "neterr"
    /\ \E u \in Urls : responses[u] = "parseerr"
    /\ result = << >>

\* C4: a failure on one link costs only that link's items: when the run
\* ends, every page fetched and recorded successfully is among the items
\* that discover_ir_links handed back.
C4_FailureIsolated ==
    pc = "done" =>
        \A i \in 1..Len(fetchLog) :
            fetchLog[i].ok => fetchLog[i].url \in Range(UrlsOf(all_content))

\* C5: the returned list has pairwise distinct URLs, non-increasing
\* importance, and at most 5 items.
C5_OutputShape ==
    pc = "done" =>
        /\ ~HasDuplicates(UrlsOf(result))
        /\ \A i \in 1..(Len(result) - 1) : result[i].importance >= result[i + 1].importance
        /\ Len(result) <= TopK

C5_Witness ==
    /\ pc = "done"
    /\ HasDuplicates(UrlsOf(all_content))
    /\ Cardinality(Range(UrlsOf(all_content))) > TopK
    /\ \E i \in 1..(Len(all_content) - 1) :
          all_content[i].importance < all_content[i + 1].importance
    /\ Len(result) = TopK

C7_JobPagesExcluded ==
    pc = "done" => \A i \in 1..Len(result) : result[i].url \notin JobLinkTargets

\* C8: the seed patterns are fetched in list order and nothing is fetched
\* once a pattern has yielded a result; the collector keeps at most one
\* item, taken from the first pattern that answered 200.
C8_SeedFallback ==
    /\ [](\A i \in 1..Len(SeedFetches) : SeedFetches[i].url = ir_patterns[i])
    /\ [][all_content # << >> => (fetchLog' = fetchLog \/ fetchLog' = << >>)]_vars
    /\ [](\A i \in 1..Len(clog) : clog[i].url = collector_patterns[i])
    /\ [][collected_data # << >> => clog' = clog]_vars
    /\ [](cpc = "done" =>
            /\ Len(cresult) <= 1
            /\ \A i \in 1..Len(cresult) :
                  \E k \in 1..Len(clog) :
                      /\ clog[k].status = "200"
                      /\ clog[k].url = cresult[i].url
                      /\ \A j \in 1..(k - 1) : clog[j].status # "200")

C8_Witness ==
    /\ pc = "done"
    /\ Len(SeedFetches) = 2
    /\ ~SeedFetches[1].ok
    /\ SeedFetches[2].ok
    /\ result # << >>
    /\ ir_url = CustomIrUrl

\* C9: no page is fetched at a depth greater than max_depth.
C9_DepthBound == \A i \in 1..Len(fetchLog) : fetchLog[i].depth <= max_depth

C9_Witness ==
    /\ pc = "done"
    /\ max_depth = 1
    /\ site = "chain"
    /\ \E i \in 1..Len(fetchLog) : fetchLog[i].depth = 1 /\ fetchLog[i].ok
    /\ Len(all_content) = 2

\* C10: the matching links of a page fetched at a depth below max_depth are
\* followed at depth + 1 as long as the 5-item cut-off is not reached.
C10_RecursesToMaxDepth ==
    (pc = "done" /\ Len(all_content) < DiscoveredCutoff) =>
        \A i \in 1..Len(fetchLog) :
            LET e == fetchLog[i]
                links == Take(Links(site, e.url), LinkScanCap)
            IN (/\ e.ok
                /\ e.depth < max_depth
                /\ \A k \in 1..Len(links) : links[k].resolvable) =>
                   \A k \in 1..Len(links) :
                       LinkMatches(links[k]) =>
                           \E j \in 1..Len(fetchLog) :
                               /\ fetchLog[j].url = links[k].href
                               /\ fetchLog[j].depth = e.depth + 1

\* time elapsed since the start of the run when request i begins: every
\* earlier request of the run has taken one request duration
ElapsedBefore(i) == i - 1

\* C11: no fetch of a run begins once the elapsed-time budget of the run
\* has been exceeded.
C11_NoFetchAfterBudget ==
    \A i \in 1..Len(fetchLog) : ElapsedBefore(i) <= ElapsedBudget

\* C12: in collect_basic_ir_info a failure on one pattern, of whatever kind,
\* counts as no result from that pattern and the remaining patterns are
\* still tried: the function ends only after a 200 answer that was kept or
\* after the last pattern.
C12_CollectorFailureIsolated ==
    cpc = "done" =>
        \/ Len(clog) = Len(collector_patterns)
        \/ (clog # << >> /\ clog[Len(clog)].status = "200" /\ Len(cresult) = 1)

\* position of the first item with URL u in the accumulated list
FirstIndexOf(items, u) ==
    CHOOSE i \in 1..Len(items) :
        /\ items[i].url = u
        /\ \A j \in 1..(i - 1) : items[j].url # u

\* C14 (as claimed): of two accumulated items with the same URL, the result
\* keeps the one seen last.
C14_KeepsLastSeen ==
    pc = "done" =>
        \A i \in 1..Len(result) : result[i] = LastWithUrl(all_content, result[i].url)

\* C14 (amended): of two accumulated items with the same URL, the result
\* keeps the one seen first.
C14_KeepsFirstSeen ==
    pc = "done" =>
        \A i \in 1..Len(result) :
            result[i] = all_content[FirstIndexOf(all_content, result[i].url)]

C14_Witness ==
    /\ pc = "done"
    /\ \E i \in 1..Len(result) :
          /\ result[i] = all_content[FirstIndexOf(all_content, result[i].url)]
          /\ result[i] # LastWithUrl(all_content, result[i].url)

\* the scoring function was applied to a text without the term and to the
\* same text with the term added
ScoreTermAdded ==
    /\ calc.fn = "score_content_importance"
    /\ calc.done
    /\ calc.arg.term \notin calc.arg.content

\* a block scored by extract_relevant_content with and without the term
BlockTermAdded ==
    /\ calc.fn = "extract_relevant_content"
    /\ calc.done
    /\ calc.arg.term \notin calc.arg.blocks[1].contains
    /\ calc.arg.glueTo \in calc.arg.blocks[1].tokens \cup {"none"}
    /\ calc.ret.bothScored

\* the added term is a document-type term that the URL already contains
TermAlreadyInUrl ==
    /\ calc.arg.term \in DOMAIN priority_keywords
    /\ calc.arg.term \in UrlText(calc.arg.url)

C15_BlockWitness ==
    /\ BlockTermAdded
    /\ calc.arg.glueTo # "none"
    /\ calc.ret.after = calc.ret.before + 1

\* position of the first item with this text in a scored list
FirstScored(items, text) ==
    CHOOSE i \in 1..Len(items) :
        /\ items[i].text = text
        /\ \A j \in 1..(i - 1) : items[j].text # text

\* the texts of a list sorted by score keep, among equal scores, the order
\* the items had before the sort
TiesKeepOrder(sortedTexts, items) ==
    \A i, j \in 1..Len(sortedTexts) :
        LET p == FirstScored(items, sortedTexts[i])
            q == FirstScored(items, sortedTexts[j])
        IN (i < j /\ items[p].score = items[q].score) => p <= q

\* the anchors of the base page that the explorer has just fetched
BasePageAnchors == ExPage(explorer.site, explorer.base_url).anchors

ScoredLinks == scored_subpages(BasePageAnchors, section_type)

\* C13: wherever items are sorted by score descending, two items of equal
\* score keep their discovery order: in the result of
\* crawl_with_intelligence, in the links returned by discover_subpages and
\* in the blocks returned by extract_relevant_content.
C13_TiesKeepDiscoveryOrder ==
    /\ (app = "crawler" /\ pc = "done") =>
          \A i, j \in 1..Len(result) :
              (i < j /\ result[i].importance = result[j].importance) =>
                  FirstIndexOf(all_content, result[i].url)
                      < FirstIndexOf(all_content, result[j].url)
    /\ (app = "explorer" /\ explorer.pc = "sub") =>
          TiesKeepOrder([i \in 1..Len(explorer.subpage_links) |->
                            CHOOSE t \in {ScoredLinks[k].text : k \in 1..Len(ScoredLinks)} :
                                \E k \in 1..Len(ScoredLinks) :
                                    /\ ScoredLinks[k].text = t
                                    /\ ScoredLinks[k].url = explorer.subpage_links[i]],
                        ScoredLinks)
    /\ (app = "pure" /\ calc.fn = "extract_relevant_content" /\ calc.done) =>
          TiesKeepOrder(calc.ret.content, calc.ret.scored)

\* discover_subpages has returned, first and second, two links of equal
\* score that were not neighbours on the page
C13_Witness ==
    /\ app = "explorer" /\ explorer.pc = "sub"
    /\ Len(explorer.subpage_links) >= 2
    /\ \E k \in 1..Len(ScoredLinks) :
          /\ ScoredLinks[k].url = explorer.subpage_links[2]
          /\ \E m \in 1..(k - 2) :
                /\ ScoredLinks[m].url = explorer.subpage_links[1]
                /\ ScoredLinks[m].score = ScoredLinks[k].score

\* the crawler has returned two items of equal importance
C13_CrawlerTie ==
    /\ app = "crawler" /\ pc = "done"
    /\ \E i, j \in 1..Len(result) :
          i < j /\ result[i].importance = result[j].importance

\* extract_relevant_content has returned two blocks of equal score
C13_BlockTie ==
    /\ app = "pure" /\ calc.fn = "extract_relevant_content" /\ calc.done
    /\ Len(calc.ret.content) >= 2
    /\ \E i, j \in 1..Len(calc.ret.scored) :
          i < j /\ calc.ret.scored[i].score = calc.ret.scored[j].score

\* the calls of explore_subpage made for the sub-links of one base page
CallsFor(base) ==
    {k \in 1..Len(explorer.explored) : explorer.explored[k].base = base}

BasePagesFetched ==
    {explorer.requests[i].url : i \in {n \in 1..Len(explorer.requests) :
                                          explorer.requests[n].by = "base"}}

\* C18: for every base page fetched, at most 3 sub-links are followed, and
\* they come from the at most 5 links that discover_subpages returned.
C18_BoundedBranching ==
    app = "explorer" =>
        /\ \A b \in BasePagesFetched : Cardinality(CallsFor(b)) <= SubLinkCap
        /\ Len(explorer.subpage_links) <= SubpageCap
        /\ \A k \in CallsFor(explorer.base_url) :
              \E i \in 1..Len(explorer.subpage_links) :
                  explorer.subpage_links[i] = explorer.explored[k].url

\* the ir section is over: its base page had more matching anchors than
\* discover_subpages returns, and exactly three of them were followed
C18_Witness ==
    /\ app = "explorer"
    /\ explorer.sidx = 2
    /\ explorer.base_url = "/investor/"
    /\ Len(scored_subpages(ExPage(explorer.site, "/investor/").anchors, "ir")) > SubpageCap
    /\ Len(explorer.subpage_links) = SubpageCap
    /\ Cardinality(CallsFor("/investor/")) = SubLinkCap

\* the HTTP requests issued by the k-th call of explore_subpage for its URL
RequestsOfCall(k) ==
    {i \in 1..Len(explorer.requests) :
        /\ explorer.requests[i].call = k
        /\ explorer.requests[i].by \in {"explore_subpage", "extract_pdf_content"}
        /\ explorer.requests[i].url = explorer.explored[k].url}

\* C19: every call of explore_subpage issues exactly one HTTP request for
\* its URL, whether the URL is an HTML page or a PDF.
C19_SingleRequestPerSublink ==
    app = "explorer" =>
        \A k \in 1..Len(explorer.explored) : Cardinality(RequestsOfCall(k)) = 1

FilterApplied ==
    /\ app = "pure"
    /\ calc.fn \in {"filter_relevant_results", "filter_ir_documents",
                    "filter_company_fundamental_results"}
    /\ calc.done

\* C16: every returned item meets the minimum score of its mode: 8 for the
\* documents of discover_important_documents, 3 for filter_relevant_results
\* and filter_ir_documents, 2 for filter_company_fundamental_results.
C16_MinimumScore ==
    /\ app = "explorer" =>
          /\ \A i \in 1..Len(explorer.documents) :
                explorer.documents[i].relevance_score >= 8
          /\ \A i \in 1..Len(explorer.result) :
                explorer.result[i].depth = "primary_document" =>
                    explorer.result[i].relevance_score >= 8
    /\ FilterApplied =>
          \A i \in 1..Len(calc.ret) :
              /\ calc.ret[i].score = FilterScore(calc.ret[i], calc.fn)
              /\ calc.ret[i].score >= (IF calc.fn = "filter_company_fundamental_results"
                                       THEN 2 ELSE 3)

\* a document of score exactly 8 was returned while an anchor of the same
\* page that scores less was left out
C16_Witness ==
    /\ app = "explorer"
    /\ explorer.pc = "done"
    /\ \E i \in 1..Len(explorer.result) :
          /\ explorer.result[i].depth = "primary_document"
          /\ explorer.result[i].relevance_score = 8
    /\ \E k \in 1..Len(ExPage(explorer.site, "/ir/library/").anchors) :
          LET a == ExPage(explorer.site, "/ir/library/").anchors[k]
          IN /\ document_score(a, explorer.search_keywords) < 8
             /\ \A i \in 1..Len(explorer.result) : explorer.result[i].url # a.href

\* a filter has returned a result of exactly its minimum score and has
\* dropped another one
C16_FilterWitness ==
    /\ FilterApplied
    /\ Len(calc.arg.results) > Len(calc.ret)
    /\ \E i \in 1..Len(calc.ret) : calc.ret[i].score = FilterThreshold(calc.fn)

\* C17: no result returned by one of the three filters has a term of that
\* filter's exclusion list in its title, in its snippet or in its URL.
C17_NoDisqualifyingTerm ==
    FilterApplied =>
        \A i \in 1..Len(calc.ret) :
            exclude_keywords(calc.fn)
                \cap (calc.ret[i].title \cup calc.ret[i].snippet
                      \cup LinkTerms(calc.ret[i].link)) = {}

\* what the filters do ensure: no returned result has such a term in its
\* title or snippet
FiltersExcludeByText ==
    FilterApplied =>
        \A i \in 1..Len(calc.ret) :
            exclude_keywords(calc.fn) \cap (calc.ret[i].title \cup calc.ret[i].snippet) = {}

CountOf(events, kind) == Cardinality({i \in 1..Len(events) : events[i] = kind})

\* C20: with no SerpAPI key, a finished run of research_company has issued
\* no search-provider request, has signalled the missing key exactly once
\* and has requested the company site before it called the LLM.
C20_MissingKeyHandled ==
    (app = "research" /\ research.pc = "done" /\ ~research.serpapi_key) =>
        /\ CountOf(research.events, "search_request") = 0
        /\ CountOf(research.events, "key_missing_warning") = 1
        /\ \E i, j \in 1..Len(research.events) :
              /\ i < j
              /\ research.events[i] = "site_request"
              /\ research.events[j] = "llm_call"

\* what a run without a key does do: no search request, and the LLM is called
NoSearchWithoutKey ==
    (app = "research" /\ research.pc = "done" /\ ~research.serpapi_key) =>
        /\ CountOf(research.events, "search_request") = 0
        /\ CountOf(research.events, "llm_call") = 1

\* the items the successful queries of one function found, in the order
\* of the queries
RECURSIVE ItemsOfSuccessful(_, _, _)
ItemsOfSuccessful(answers, fn, items) ==
    IF answers = << >> THEN << >>
    ELSE (IF Head(answers).fn = fn /\ Head(answers).outcome = "results"
          THEN items ELSE << >>)
         \o ItemsOfSuccessful(Tail(answers), fn, items)

AnswersOf(fn) == SelectSeq(research.answers, LAMBDA a : a.fn = fn)

\* C21: in search_ir_documents_with_serpapi and search_external_sources a
\* query whose answer is absent, not 200 or an exception adds no item,
\* every query of the list is still issued, and the function returns the
\* items of the successful queries
C21_SearchFailureIsolated ==
    (app = "research" /\ research.serpapi_key) =>
        /\ research.pc \in {"external_search", "llm", "done"} =>
              /\ Len(AnswersOf("ir")) = ir_search_queries
              /\ research.ir_data =
                    ItemsOfSuccessful(research.answers, "ir",
                                      Take(filter_ir_documents(OrganicResults), 2))
        /\ research.pc \in {"llm", "done"} =>
              /\ Len(AnswersOf("external")) = search_queries
              /\ research.external_data =
                    ItemsOfSuccessful(research.answers, "external",
                                      Take(filter_relevant_results(OrganicResults), 2))

\* a failed first query and a failed middle query, the last one answered:
\* both functions have returned the items of their successful queries
C21_Witness ==
    /\ app = "research"
    /\ research.pc = "llm"
    /\ [i \in 1..Len(research.answers) |-> research.answers[i].outcome]
          = << "exception", "non200", "results", "no_results", "results" >>
    /\ Len(research.ir_data) = 2
    /\ Len(research.external_data) = 1

\* the list search_existing_sources has returned
Returned == app = "explorer" /\ explorer.pc = "done"

DepthsReturned == {explorer.result[i].depth : i \in 1..Len(explorer.result)}

\* C22: the list search_existing_sources hands to the chat prompt has at
\* most 15 items, and every item has a url and a source_type label
\* (generate_chat_response reads source['source_type'], source['url'] and
\* source['content'] of every item), whichever producer created it
C22_ConsumerContract ==
    Returned =>
        /\ Len(explorer.result) <= 15
        /\ \A i \in 1..Len(explorer.result) :
              /\ {"url", "source_type", "content"} \subseteq DOMAIN explorer.result[i]
              /\ explorer.result[i].url # ""
              /\ explorer.result[i].source_type # ""

\* a returned list cut to 15 items that holds items of all four producers
C22_Witness ==
    /\ Returned
    /\ Len(explorer.additional_sources) > 15
    /\ Len(explorer.result) = 15
    /\ DepthsReturned = {"base", "deep", "document", "primary_document"}

\* an entry of a request log is an HTTP request unless it records a delay
\* step; the source calls time.sleep nowhere, so no action writes a delay
\* entry
IsRequest(entry) == "delay" \notin DOMAIN entry

BackToBack(log) ==
    \E i \in 1..(Len(log) - 1) : IsRequest(log[i]) /\ IsRequest(log[i + 1])

\* C23: within one exploration run a delay step occurs between any two
\* consecutive HTTP requests, in discover_ir_links and in the site
\* exploration of search_existing_sources
C23_DelayBetweenRequests ==
    /\ ~BackToBack(fetchLog)
    /\ app = "explorer" => ~BackToBack(explorer.requests)

\* C24: every URL discover_ir_links fetches during a crawl belongs to the
\* company domain (is_valid_domain holds for it); links to other hosts are
\* never followed
C24_OnlyCompanyDomain ==
    \A i \in 1..Len(fetchLog) : is_valid_domain(fetchLog[i].url)

\* C25: deep_explore_section returns at most 3 sources for one section
\* (section_sources is the list the last call returned), and
\* search_existing_sources holds at most 12 section sources when it starts
\* to look for important documents
C25_PerSectionCap ==
    app = "explorer" =>
        /\ Len(explorer.section_sources) <= 3
        /\ explorer.pc = "documents" => Len(explorer.additional_sources) <= 12

\* C26: on every finite site, also when pages link to themselves or to
\* each other, a run of crawl_with_intelligence that has started eventually
\* returns, given that each request returns or times out
C26_CrawlTerminates ==
    (app = "crawler" /\ pc # "done") ~> (pc = "done")

\* a run on the site whose pages link to themselves and to each other has
\* returned after following a link back to the start page
C26_Witness ==
    /\ app = "crawler"
    /\ site = "cycle"
    /\ pc = "done"
    /\ \E i \in 1..Len(fetchLog) : fetchLog[i].url = "/ir/" /\ fetchLog[i].depth >= 1

\* C27: for the company_info record that main's form handler builds,
\* research_company returns a parsed result or None and never raises, and
\* every key read by indexing while the prompt is built and the result
\* summary is rendered is a key the form handler set
C27_NoUncaughtFailure ==
    (app = "research" /\ research.company_info = form_company_info) =>
        /\ research.pc # "raised"
        /\ research.result \in {"none", "research_data", "None"}
        /\ research.pc \in {"raised", "done"} =>
              indexed_keys("prompt") \subseteq research.company_info
        /\ research.result = "research_data" =>
              indexed_keys("summary") \subseteq research.company_info

\* what the code does with the form handler's record: it never reaches the
\* LLM call
FormRecordNeverAnalysed ==
    (app = "research" /\ research.company_info = form_company_info) =>
        /\ research.result \in {"none", "KeyError"}
        /\ CountOf(research.events, "llm_call") = 0

\* C28: after any sequence of form submissions the result view with its
\* success banner is shown only if the most recently submitted analysis
\* succeeded, and what it shows is the result of that analysis
C28_ResultFreshness ==
    (app = "session" /\ session.view.banner) =>
        /\ session.last = "ok"
        /\ session.view.shown = session.submits

\* in streamlit_app.py no analysis is ever stored, so its result view and
\* its chat section are never displayed
FullAppStoresNoResult ==
    (app = "session" /\ session.file = "full") =>
        /\ session.analysis_results = 0
        /\ ~session.view.banner

\* C30: whenever discover_important_documents found a primary document,
\* the list search_existing_sources returns holds at least one item of
\* depth 'primary_document'
C30_PrimaryDocumentsKept ==
    (Returned /\ explorer.documents # << >>) =>
        "primary_document" \in DepthsReturned

\* what the code guarantees instead: the section sources come first and
\* the documents only fill what is left of the 15 places
DocumentsFillTheRest ==
    Returned =>
        Cardinality({i \in 1..Len(explorer.result) :
                        explorer.result[i].depth = "primary_document"})
            <= 15 - (Len(explorer.additional_sources) - Len(Take(explorer.documents, 5)))

====
